---- MODULE Spec2Model ----
(***************************************************************************)
(* Model of aqara/device.py: the device factory, the base device contract *)
(* (callback registration, update / heartbeat dispatch) and the four      *)
(* sensor variants with their payload decoding.                           *)
(*                                                                         *)
(* Python strings that the code parses (payload values) are sequences of  *)
(* one-character strings, so that int() is modelled by what it does.      *)
(* Temperatures and humidities are kept in tenths (23.5 is 235).          *)
(* An operation that may raise returns a record whose exc field names the *)
(* exception ("none" when it returns normally).                           *)
(***************************************************************************)
EXTENDS Integers, Sequences, FiniteSets, TLC

VARIABLES devices, last, registered

vars == <<devices, last, registered>>

(* ---------------- bounds of the model ---------------- *)

\* largest number of keys of a generated event payload
MaxKeys == 2

(* ---------------- constants imported from aqara.const ---------------- *)
\* device.py uses these only by name; each stands for itself as an opaque token

AQARA_DEVICE_HT == "sensor_ht"
AQARA_DEVICE_MOTION == "motion"
AQARA_DEVICE_MAGNET == "magnet"
AQARA_DEVICE_SWITCH == "switch"
AQARA_SWITCH_ACTION_CLICK == "ACTION_CLICK"
AQARA_SWITCH_ACTION_DOUBLE_CLICK == "ACTION_DOUBLE_CLICK"
AQARA_SWITCH_ACTION_LONG_CLICK_PRESS == "ACTION_LONG_CLICK_PRESS"
AQARA_SWITCH_ACTION_LONG_CLICK_RELEASE == "ACTION_LONG_CLICK_RELEASE"

\* Python's None
None == "None"

(* ---------------- Python strings as character sequences ---------------- *)

S_click == <<"c", "l", "i", "c", "k">>
S_double_click == <<"d", "o", "u", "b", "l", "e", "_", "c", "l", "i", "c", "k">>
S_long_click_press ==
    <<"l", "o", "n", "g", "_", "c", "l", "i", "c", "k", "_", "p", "r", "e", "s", "s">>
S_long_click_release ==
    <<"l", "o", "n", "g", "_", "c", "l", "i", "c", "k", "_", "r", "e", "l", "e", "a", "s", "e">>
S_open == <<"o", "p", "e", "n">>
S_motion == <<"m", "o", "t", "i", "o", "n">>

\* BUTTON_ACTION_MAP with the release entry given the press code
BUTTON_ACTION_MAP_SameLongCode ==
    { <<S_click, AQARA_SWITCH_ACTION_CLICK>>,
      <<S_double_click, AQARA_SWITCH_ACTION_DOUBLE_CLICK>>,
      <<S_long_click_press, AQARA_SWITCH_ACTION_LONG_CLICK_PRESS>>,
      <<S_long_click_release, AQARA_SWITCH_ACTION_LONG_CLICK_PRESS>> }

\* the module-level dictionary BUTTON_ACTION_MAP, as a set of <<key, value>> items
BUTTON_ACTION_MAP ==
    { <<S_click, AQARA_SWITCH_ACTION_CLICK>>,
      <<S_double_click, AQARA_SWITCH_ACTION_DOUBLE_CLICK>>,
      <<S_long_click_press, AQARA_SWITCH_ACTION_LONG_CLICK_PRESS>>,
      <<S_long_click_release, AQARA_SWITCH_ACTION_LONG_CLICK_RELEASE>> }

\* status in BUTTON_ACTION_MAP
InMap(status) == \E item \in BUTTON_ACTION_MAP : item[1] = status

\* BUTTON_ACTION_MAP[status], for a status in the dictionary
MapGet(status) == (CHOOSE item \in BUTTON_ACTION_MAP : item[1] = status)[2]

(* ---------------- int(str) ---------------- *)

Digits == {"0", "1", "2", "3", "4", "5", "6", "7", "8", "9"}

DigitVal(c) ==
    CASE c = "0" -> 0 [] c = "1" -> 1 [] c = "2" -> 2 [] c = "3" -> 3
      [] c = "4" -> 4 [] c = "5" -> 5 [] c = "6" -> 6 [] c = "7" -> 7
      [] c = "8" -> 8 [] c = "9" -> 9

IsSpace(c) == c = " "

RECURSIVE LStrip(_)
LStrip(s) == IF s # <<>> /\ IsSpace(Head(s)) THEN LStrip(Tail(s)) ELSE s

RECURSIVE RStrip(_)
RStrip(s) ==
    IF s # <<>> /\ IsSpace(s[Len(s)]) THEN RStrip(SubSeq(s, 1, Len(s) - 1)) ELSE s

\* the digits of an integer literal: digits, with single underscores between them
IsDigitString(s) ==
    /\ s # <<>>
    /\ \A i \in 1..Len(s) : s[i] \in Digits \cup {"_"}
    /\ s[1] \in Digits
    /\ s[Len(s)] \in Digits
    /\ \A i \in 1..(Len(s) - 1) : ~(s[i] = "_" /\ s[i + 1] = "_")

RECURSIVE DigitsValue(_, _)
DigitsValue(s, acc) ==
    IF s = <<>> THEN acc
    ELSE IF Head(s) = "_" THEN DigitsValue(Tail(s), acc)
    ELSE DigitsValue(Tail(s), 10 * acc + DigitVal(Head(s)))

\* int(str_value): surrounding whitespace is dropped, then an optional sign and the
\* digits; anything else raises ValueError
PyInt(str_value) ==
    LET s == RStrip(LStrip(str_value))
        signed == s # <<>> /\ Head(s) \in {"+", "-"}
        body == IF signed THEN Tail(s) ELSE s
    IN  IF IsDigitString(body)
        THEN [exc |-> "none",
              val |-> IF signed /\ Head(s) = "-"
                      THEN 0 - DigitsValue(body, 0) ELSE DigitsValue(body, 0)]
        ELSE [exc |-> "ValueError", val |-> 0]

(* ---------------- round(n / 100, 1) ---------------- *)

RECURSIVE Pow2Mod(_, _)
Pow2Mod(k, m) == IF k = 0 THEN 1 % m ELSE (2 * Pow2Mod(k - 1, m)) % m

RECURSIVE Pow2(_)
Pow2(k) == IF k = 0 THEN 1 ELSE 2 * Pow2(k - 1)

\* the binary exponent e of a / 100 (a > 0): 2^e <= a / 100 < 2^(e+1)
RECURSIVE ExpUp(_, _)
ExpUp(a, i) == IF 100 * Pow2(i + 1) <= a THEN ExpUp(a, i + 1) ELSE i
RECURSIVE ExpDown(_, _)
ExpDown(a, j) == IF a * Pow2(j) < 100 THEN ExpDown(a, j + 1) ELSE 0 - j
Exponent(a) == IF a >= 100 THEN ExpUp(a, 0) ELSE ExpDown(a, 0)

\* a / 100 is a binary64 float: its 53-bit significand is a * 2^k / 100 rounded to
\* an integer, k = 52 - Exponent(a). The float lies above the quotient exactly
\* when the dropped remainder is more than a half.
FloatAbove(a) ==
    LET k == 52 - Exponent(a)
    IN  ((a % 100) * Pow2Mod(k, 100)) % 100 > 50

\* round(a / 100, 1) in tenths, a >= 0: round-half-even on the float's exact value
RoundTenths(a) ==
    LET q == a \div 10
        r == a % 10
    IN  IF r < 5 THEN q
        ELSE IF r > 5 THEN q + 1
        ELSE IF a % 25 = 0 THEN (IF q % 2 = 0 THEN q ELSE q + 1)
        ELSE IF FloatAbove(a) THEN q + 1 ELSE q

\* round(n / 100, 1), in tenths
RoundDiv100(n) == IF n < 0 THEN 0 - RoundTenths(0 - n) ELSE RoundTenths(n)

\* AqaraHTSensor.parse_value
parse_value(str_value) ==
    LET i == PyInt(str_value)
    IN  IF i.exc # "none" THEN [exc |-> i.exc, val |-> 0]
        ELSE [exc |-> "none", val |-> RoundDiv100(i.val)]

(* ---------------- construction ---------------- *)

\* the gateway collaborator a device refers to
GATEWAY == "gateway"

\* AqaraBaseDevice.__init__(self, gateway, model, sid), called with the positional
\* arguments args (self apart): a call that does not supply all three raises TypeError
AqaraBaseDevice__init__(args) ==
    IF Len(args) # 3
    THEN [exc |-> "TypeError", obj |-> None]
    ELSE [exc |-> "none",
          obj |-> [gateway |-> args[1], model |-> args[2], sid |-> args[3],
                   update_callback |-> None]]

\* the attributes the body of a variant's __init__ assigns after the base call
HTFields == [cls |-> "AqaraHTSensor", temp |-> 0, humid |-> 0]
ContactFields == [cls |-> "AqaraContactSensor", triggered |-> FALSE, voltage |-> 0]
MotionFields == [cls |-> "AqaraMotionSensor", triggered |-> FALSE, voltage |-> 0]
SwitchFields == [cls |-> "AqaraSwitchSensor", last_action |-> None, voltage |-> 0]

\* a variant's __init__(self, sid): super().__init__(MODEL, sid), then the fields
VariantInit(modelConst, fields, sid) ==
    LET b == AqaraBaseDevice__init__(<<modelConst, sid>>)
    IN  IF b.exc # "none" THEN b ELSE [exc |-> "none", obj |-> b.obj @@ fields]

AqaraHTSensor__init__(sid) == VariantInit(AQARA_DEVICE_HT, HTFields, sid)
AqaraContactSensor__init__(sid) == VariantInit(AQARA_DEVICE_MAGNET, ContactFields, sid)
AqaraMotionSensor__init__(sid) == VariantInit(AQARA_DEVICE_MOTION, MotionFields, sid)
AqaraSwitchSensor__init__(sid) == VariantInit(AQARA_DEVICE_SWITCH, SwitchFields, sid)

\* create_device whose error message is formatted from the model alone
create_device_result_NoSid(model, sid) ==
    LET r == CASE model = AQARA_DEVICE_HT -> AqaraHTSensor__init__(sid)
               [] model = AQARA_DEVICE_MOTION -> AqaraMotionSensor__init__(sid)
               [] model = AQARA_DEVICE_MAGNET -> AqaraContactSensor__init__(sid)
               [] model = AQARA_DEVICE_SWITCH -> AqaraSwitchSensor__init__(sid)
               [] OTHER -> [exc |-> "RuntimeError", obj |-> None]
    IN  [exc |-> r.exc, obj |-> r.obj,
         msg |-> IF r.exc = "RuntimeError" THEN <<model>> ELSE <<>>]

\* create_device(model, sid): the constructed device, or the exception raised;
\* msg holds the values formatted into the RuntimeError's message
create_device_result(model, sid) ==
    LET r == CASE model = AQARA_DEVICE_HT -> AqaraHTSensor__init__(sid)
               [] model = AQARA_DEVICE_MOTION -> AqaraMotionSensor__init__(sid)
               [] model = AQARA_DEVICE_MAGNET -> AqaraContactSensor__init__(sid)
               [] model = AQARA_DEVICE_SWITCH -> AqaraSwitchSensor__init__(sid)
               [] OTHER -> [exc |-> "RuntimeError", obj |-> None]
    IN  [exc |-> r.exc, obj |-> r.obj,
         msg |-> IF r.exc = "RuntimeError" THEN <<model, sid>> ELSE <<>>]

\* An instance as the constructors' bodies leave it when the base constructor is
\* entered with its full signature (gateway, model, sid): the objects that the
\* event handlers below are applied to.
Instance(modelConst, fields, sid) ==
    AqaraBaseDevice__init__(<<GATEWAY, modelConst, sid>>).obj @@ fields

InstanceOf(model, sid) ==
    CASE model = AQARA_DEVICE_HT -> Instance(AQARA_DEVICE_HT, HTFields, sid)
      [] model = AQARA_DEVICE_MOTION -> Instance(AQARA_DEVICE_MOTION, MotionFields, sid)
      [] model = AQARA_DEVICE_MAGNET -> Instance(AQARA_DEVICE_MAGNET, ContactFields, sid)
      [] model = AQARA_DEVICE_SWITCH -> Instance(AQARA_DEVICE_SWITCH, SwitchFields, sid)

(* ---------------- logging ---------------- *)

\* fmt % arg for a string arg: fmt must hold exactly one conversion specifier
PercentFormat(fmt, arg) ==
    IF fmt.specs = 1
    THEN [exc |-> "none", text |-> <<fmt.text, arg>>]
    ELSE [exc |-> "TypeError", text |-> <<>>]

\* the literal 'invalid status: {}' of do_update: it holds no % specifier
InvalidStatusFmt == [text |-> "invalid status: {}", specs |-> 0]

\* AqaraBaseDevice.log_warning with _log: one warning record '[model] sid: msg'
log_warning(self, msg) ==
    <<[level |-> "warning", model |-> self.model, sid |-> self.sid, msg |-> msg]>>

(* ---------------- the variants' parsing hooks ---------------- *)
\* each returns [dev: the instance afterwards, exc: the exception raised, log: the
\* log records emitted]

Has(data, key) == key \in DOMAIN data

Done(self) == [dev |-> self, exc |-> "none", log |-> <<>>]
Raised(self, exc) == [dev |-> self, exc |-> exc, log |-> <<>>]

\* an HT update hook that stores 0 for a key the payload lacks
AqaraHTSensor_do_update_Defaults(self, data) ==
    LET t == IF Has(data, "temperature") THEN parse_value(data["temperature"])
             ELSE [exc |-> "none", val |-> 0]
        d1 == [self EXCEPT !.temp = t.val]
        h == IF Has(data, "humidity") THEN parse_value(data["humidity"])
             ELSE [exc |-> "none", val |-> 0]
        d2 == [d1 EXCEPT !.humid = h.val]
    IN  IF t.exc # "none" THEN Raised(self, t.exc)
        ELSE IF h.exc # "none" THEN Raised(d1, h.exc)
        ELSE Done(d2)

AqaraHTSensor_do_update(self, data) ==
    LET t == IF Has(data, "temperature") THEN parse_value(data["temperature"])
             ELSE [exc |-> "none", val |-> self.temp]
        d1 == [self EXCEPT !.temp = t.val]
        h == IF Has(data, "humidity") THEN parse_value(data["humidity"])
             ELSE [exc |-> "none", val |-> self.humid]
        d2 == [d1 EXCEPT !.humid = h.val]
    IN  IF t.exc # "none" THEN Raised(self, t.exc)
        ELSE IF h.exc # "none" THEN Raised(d1, h.exc)
        ELSE Done(d2)

\* a heartbeat hook left as the base class's (pass)
AqaraHTSensor_do_heartbeat_Pass(self, data) == Done(self)

AqaraHTSensor_do_heartbeat(self, data) == AqaraHTSensor_do_update(self, data)

\* the heartbeat hook shared in text by the contact, motion and switch variants
VoltageHeartbeat(self, data) ==
    IF Has(data, "voltage")
    THEN LET v == PyInt(data["voltage"])
         IN  IF v.exc # "none" THEN Raised(self, v.exc)
             ELSE Done([self EXCEPT !.voltage = v.val])
    ELSE Done(self)

\* a contact update hook that resets triggered when status is absent
AqaraContactSensor_do_update_Resets(self, data) ==
    IF Has(data, "status")
    THEN Done([self EXCEPT !.triggered = (data["status"] = S_open)])
    ELSE Done([self EXCEPT !.triggered = FALSE])

AqaraContactSensor_do_update(self, data) ==
    IF Has(data, "status")
    THEN Done([self EXCEPT !.triggered = (data["status"] = S_open)])
    ELSE Done(self)

AqaraContactSensor_do_heartbeat(self, data) == VoltageHeartbeat(self, data)

\* a motion update hook that keeps triggered when status is absent
AqaraMotionSensor_do_update_Keeps(self, data) ==
    IF Has(data, "status")
    THEN Done([self EXCEPT !.triggered = (data["status"] = S_motion)])
    ELSE Done(self)

AqaraMotionSensor_do_update(self, data) ==
    IF Has(data, "status")
    THEN Done([self EXCEPT !.triggered = (data["status"] = S_motion)])
    ELSE Done([self EXCEPT !.triggered = FALSE])

\* a motion heartbeat hook that runs the update hook, as the HT one does
AqaraMotionSensor_do_heartbeat_AsUpdate(self, data) ==
    AqaraMotionSensor_do_update(self, data)

AqaraMotionSensor_do_heartbeat(self, data) == VoltageHeartbeat(self, data)

\* a switch update hook that stores BUTTON_ACTION_MAP.get(status): None for a
\* status the mapping lacks
AqaraSwitchSensor_do_update_Get(self, data) ==
    IF Has(data, "status")
    THEN LET status == data["status"]
         IN  IF InMap(status)
             THEN Done([self EXCEPT !.last_action = MapGet(status)])
             ELSE Done([self EXCEPT !.last_action = None])
    ELSE Done(self)

AqaraSwitchSensor_do_update(self, data) ==
    IF Has(data, "status")
    THEN LET status == data["status"]
         IN  IF InMap(status)
             THEN Done([self EXCEPT !.last_action = MapGet(status)])
             ELSE LET m == PercentFormat(InvalidStatusFmt, status)
                  IN  IF m.exc # "none" THEN Raised(self, m.exc)
                      ELSE [dev |-> self, exc |-> "none",
                            log |-> log_warning(self, m.text)]
    ELSE Done(self)

\* a switch heartbeat hook that runs the update hook, as the HT one does
AqaraSwitchSensor_do_heartbeat_AsUpdate(self, data) ==
    AqaraSwitchSensor_do_update(self, data)

AqaraSwitchSensor_do_heartbeat(self, data) == VoltageHeartbeat(self, data)

\* self.do_update(data): dispatch on the instance's class
do_update(self, data) ==
    CASE self.cls = "AqaraHTSensor" -> AqaraHTSensor_do_update(self, data)
      [] self.cls = "AqaraContactSensor" -> AqaraContactSensor_do_update(self, data)
      [] self.cls = "AqaraMotionSensor" -> AqaraMotionSensor_do_update(self, data)
      [] self.cls = "AqaraSwitchSensor" -> AqaraSwitchSensor_do_update(self, data)

\* self.do_heartbeat(data)
do_heartbeat(self, data) ==
    CASE self.cls = "AqaraHTSensor" -> AqaraHTSensor_do_heartbeat(self, data)
      [] self.cls = "AqaraContactSensor" -> AqaraContactSensor_do_heartbeat(self, data)
      [] self.cls = "AqaraMotionSensor" -> AqaraMotionSensor_do_heartbeat(self, data)
      [] self.cls = "AqaraSwitchSensor" -> AqaraSwitchSensor_do_heartbeat(self, data)

(* ---------------- the base device contract ---------------- *)

\* the tail shared by on_update and on_heartbeat: an exception of the hook
\* propagates; otherwise the registered callback, if any, is called once.
\* calls lists the callbacks invoked, each with the instance as it then was.
Notify(r) ==
    [dev |-> r.dev, exc |-> r.exc, log |-> r.log,
     calls |-> IF r.exc = "none" /\ r.dev.update_callback # None
               THEN <<[cb |-> r.dev.update_callback, dev |-> r.dev]>>
               ELSE <<>>]

\* an on_update that calls the callback before running the hook
on_update_result_CallbackFirst(self, data) ==
    LET r == do_update(self, data)
    IN  [dev |-> r.dev, exc |-> r.exc, log |-> r.log,
         calls |-> IF self.update_callback # None
                   THEN <<[cb |-> self.update_callback, dev |-> self]>>
                   ELSE <<>>]

on_update_result(self, data) == Notify(do_update(self, data))

on_heartbeat_result(self, data) == Notify(do_heartbeat(self, data))

\* a registration that keeps a callback already registered
set_update_callback_result_KeepsFirst(self, update_callback) ==
    IF self.update_callback = None
    THEN [self EXCEPT !.update_callback = update_callback]
    ELSE self

set_update_callback_result(self, update_callback) ==
    [self EXCEPT !.update_callback = update_callback]

\* update_now: self._gateway.read_device(self._sid).  Only a gateway object has
\* read_device; reads are the requests the gateway receives.
update_now_result(self) ==
    IF self.gateway = GATEWAY
    THEN [exc |-> "none", reads |-> <<[gateway |-> self.gateway, sid |-> self.sid]>>]
    ELSE [exc |-> "AttributeError", reads |-> <<>>]

(* ---------------- inputs ---------------- *)

Sids == {"s1", "s2"}

ValidModels ==
    {AQARA_DEVICE_HT, AQARA_DEVICE_MOTION, AQARA_DEVICE_MAGNET, AQARA_DEVICE_SWITCH}

\* the models handed to the factory: the four recognized ones and two others
ModelInputs == ValidModels \cup {"unknown", "gateway"}

\* the listeners' callbacks
Callbacks == {"cbA", "cbB"}

V_2350 == <<"2", "3", "5", "0">>
V_4567 == <<"4", "5", "6", "7">>
V_3005 == <<"3", "0", "0", "5">>
V_abc == <<"a", "b", "c">>

Keys == {"temperature", "humidity", "status", "voltage"}

\* the values an event payload may carry under each key
ValuesFor(key) ==
    CASE key = "temperature" -> {V_2350, V_abc}
      [] key = "humidity" -> {V_4567, V_abc}
      [] key = "voltage" -> {V_3005, V_abc}
      [] key = "status" -> {S_open, S_motion, S_click, S_double_click,
                            S_long_click_press, S_long_click_release}

\* a key that a payload does not hold
Absent == <<"<absent>">>

\* the event payloads: mappings from at most MaxKeys keys to values
Payloads ==
    { [k \in {x \in Keys : c[x] # Absent} |-> c[k]] :
        c \in { x \in [Keys -> UNION {ValuesFor(k) \cup {Absent} : k \in Keys}] :
                  /\ \A k \in Keys : x[k] \in ValuesFor(k) \cup {Absent}
                  /\ Cardinality({k \in Keys : x[k] # Absent}) <= MaxKeys } }

(* ---------------- the state machine ---------------- *)
\* devices: the instances events are delivered to, by sid
\* last: the last operation, its inputs, what it acted on (pre: the instance
\*       before an event or a registration, the instances before a factory call)
\*       and what it did (exception, callbacks called, log records, value returned)
\* registered: by sid, the callback most recently handed to set_update_callback

NoData == <<>>

Op(op, sid, model, data, pre, exc, msg, calls, log, ret) ==
    [op |-> op, sid |-> sid, model |-> model, data |-> data, pre |-> pre,
     exc |-> exc, msg |-> msg, calls |-> calls, log |-> log, ret |-> ret]

Init ==
    /\ \E m \in ValidModels, sid \in {"s1"} :
           devices = [s \in {sid} |-> InstanceOf(m, s)]
    /\ last = Op("none", None, None, NoData, None, "none", <<>>, <<>>, <<>>, None)
    /\ registered = [s \in DOMAIN devices |-> None]

create_device(model, sid) ==
    LET r == create_device_result(model, sid)
    IN  /\ last' = Op("create_device", sid, model, NoData, devices,
                      r.exc, r.msg, <<>>, <<>>, r.obj)
        /\ devices' = IF r.exc = "none" THEN (sid :> r.obj) @@ devices ELSE devices
        /\ registered' = IF r.exc = "none" THEN (sid :> None) @@ registered
                         ELSE registered

\* a registration kept in an attribute of the class, which all instances share
set_update_callback_Shared(sid, update_callback) ==
    /\ devices' = [s \in DOMAIN devices |->
                      set_update_callback_result(devices[s], update_callback)]
    /\ registered' = [registered EXCEPT ![sid] = update_callback]
    /\ last' = Op("set_update_callback", sid, None, NoData, devices[sid],
                  "none", <<>>, <<>>, <<>>, None)

set_update_callback(sid, update_callback) ==
    /\ devices' = [devices EXCEPT
                     ![sid] = set_update_callback_result(devices[sid], update_callback)]
    /\ registered' = [registered EXCEPT ![sid] = update_callback]
    /\ last' = Op("set_update_callback", sid, None, NoData, devices[sid],
                  "none", <<>>, <<>>, <<>>, None)

on_update(sid, data) ==
    LET r == on_update_result(devices[sid], data)
    IN  /\ devices' = [devices EXCEPT ![sid] = r.dev]
        /\ last' = Op("on_update", sid, None, data, devices[sid],
                      r.exc, <<>>, r.calls, r.log, None)
        /\ UNCHANGED registered

on_heartbeat(sid, data) ==
    LET r == on_heartbeat_result(devices[sid], data)
    IN  /\ devices' = [devices EXCEPT ![sid] = r.dev]
        /\ last' = Op("on_heartbeat", sid, None, data, devices[sid],
                      r.exc, <<>>, r.calls, r.log, None)
        /\ UNCHANGED registered

update_now(sid) ==
    LET r == update_now_result(devices[sid])
    IN  /\ last' = [reads |-> r.reads] @@
                    Op("update_now", sid, None, NoData, devices[sid],
                       r.exc, <<>>, <<>>, <<>>, None)
        /\ UNCHANGED <<devices, registered>>

Next ==
    \/ \E model \in ModelInputs, sid \in Sids : create_device(model, sid)
    \/ \E sid \in DOMAIN devices, cb \in Callbacks \cup {None} : set_update_callback(sid, cb)
    \/ \E sid \in DOMAIN devices, data \in Payloads : on_update(sid, data)
    \/ \E sid \in DOMAIN devices, data \in Payloads : on_heartbeat(sid, data)
    \/ \E sid \in DOMAIN devices : update_now(sid)

Spec == Init /\ [][Next]_vars

(* ---------------- two instances of one variant ---------------- *)

\* the payloads with at most one key, the status being one of four
PairStatuses == {S_click, S_double_click, S_open, S_motion}

PairPayloads ==
    {data \in Payloads :
        /\ Cardinality(DOMAIN data) <= 1
        /\ Has(data, "status") => data["status"] \in PairStatuses}

\* two instances of the same class, one per sid
InitPair ==
    /\ \E m \in ValidModels : devices = [s \in Sids |-> InstanceOf(m, s)]
    /\ last = Op("none", None, None, NoData, None, "none", <<>>, <<>>, <<>>, None)
    /\ registered = [s \in DOMAIN devices |-> None]

NextPair ==
    \/ \E model \in ModelInputs, sid \in Sids : create_device(model, sid)
    \/ \E sid \in DOMAIN devices, cb \in Callbacks \cup {None} : set_update_callback(sid, cb)
    \/ \E sid \in DOMAIN devices, data \in PairPayloads : on_update(sid, data)
    \/ \E sid \in DOMAIN devices, data \in PairPayloads : on_heartbeat(sid, data)
    \/ \E sid \in DOMAIN devices : update_now(sid)

SpecPair == InitPair /\ [][NextPair]_vars

(* ---------------- properties ---------------- *)

IsEvent == last.op \in {"on_update", "on_heartbeat"}

\* the instance the last operation acted on, before and after it
Pre == last.pre
Post == devices[last.sid]

HasKey(key) == key \in DOMAIN last.data

\* C1: for every recognized model and every sid, create_device(model, sid)
\* returns a device whose sid and model are the ones passed in.
C1_FactoryReturnsDevice ==
    (last.op = "create_device" /\ last.model \in ValidModels)
        => /\ last.exc = "none"
           /\ last.ret.sid = last.sid
           /\ last.ret.model = last.model

\* C2: for every model that is not one of the four recognized identifiers,
\* create_device fails with the unsupported-device-type error (the RuntimeError of
\* the factory), which carries the offending model and sid, and no device is
\* created: nothing is returned and the existing instances are as before.
C2_UnknownModelRejected ==
    (last.op = "create_device" /\ last.model \notin ValidModels)
        => /\ last.exc = "RuntimeError"
           /\ last.msg = <<last.model, last.sid>>
           /\ last.ret = None
           /\ devices = last.pre

C2_Witness ==
    /\ last.op = "create_device"
    /\ last.model = "unknown"
    /\ last.sid = "s2"
    /\ last.exc = "RuntimeError"

\* C3: every on_update / on_heartbeat call invokes the registered callback
\* exactly once if one is registered and never if none is, whatever the payload.
C3_CallbackExactlyOnce ==
    IsEvent =>
        IF Pre.update_callback # None
        THEN Len(last.calls) = 1 /\ last.calls[1].cb = Pre.update_callback
        ELSE last.calls = <<>>

\* C4: on_update and on_heartbeat complete without raising, whatever the payload
\* holds (non-numeric temperature, humidity or voltage, unrecognized status).
C4_NoExceptionEscapes == IsEvent => last.exc = "none"

\* C5: switch, on_update with a status that is not in the action mapping: last_action
\* is unchanged, one warning is logged, and nothing is raised.
C5_UnknownStatusWarns ==
    (/\ last.op = "on_update"
     /\ Pre.cls = "AqaraSwitchSensor"
     /\ HasKey("status")
     /\ last.data["status"] \notin
            {S_click, S_double_click, S_long_click_press, S_long_click_release})
        => /\ Post.last_action = Pre.last_action
           /\ Len(last.log) = 1
           /\ last.log[1].level = "warning"
           /\ last.exc = "none"

\* the action code the fixed mapping assigns to each of the four statuses
ExpectedAction(status) ==
    CASE status = S_click -> AQARA_SWITCH_ACTION_CLICK
      [] status = S_double_click -> AQARA_SWITCH_ACTION_DOUBLE_CLICK
      [] status = S_long_click_press -> AQARA_SWITCH_ACTION_LONG_CLICK_PRESS
      [] status = S_long_click_release -> AQARA_SWITCH_ACTION_LONG_CLICK_RELEASE

\* C6: switch, on_update with status click, double_click, long_click_press or
\* long_click_release sets last_action to the code the mapping assigns to that
\* status, whatever last_action was before.
C6_KnownStatusSetsAction ==
    (/\ last.op = "on_update"
     /\ Pre.cls = "AqaraSwitchSensor"
     /\ HasKey("status")
     /\ last.data["status"] \in
            {S_click, S_double_click, S_long_click_press, S_long_click_release})
        => /\ Post.last_action = ExpectedAction(last.data["status"])
           /\ last.exc = "none"

C6_Witness ==
    /\ last.op = "on_update"
    /\ Pre.cls = "AqaraSwitchSensor"
    /\ Pre.last_action = AQARA_SWITCH_ACTION_DOUBLE_CLICK
    /\ HasKey("status")
    /\ last.data["status"] = S_long_click_release
    /\ Post.last_action = AQARA_SWITCH_ACTION_LONG_CLICK_RELEASE

C7_Step ==
    (last'.op \in {"on_update", "on_heartbeat"}) =>
        LET latest == registered[last'.sid]
            called == {last'.calls[i].cb : i \in 1..Len(last'.calls)}
        IN  /\ called \subseteq {latest}
            /\ Len(last'.calls) <= 1
            /\ (last'.exc = "none" /\ latest # None) => called = {latest}
            /\ (last.op = "set_update_callback" /\ last.pre.update_callback # latest)
                   => last.pre.update_callback \notin called

\* C7: registering a callback replaces the previous one: an event invokes only the
\* callback most recently handed to set_update_callback (once, when the parsing
\* hook returns), and the event that follows a registration never invokes the
\* callback that registration replaced.
C7_LatestCallbackOnly == [][C7_Step]_vars

\* a registration has just replaced cbA by cbB
C7_Witness ==
    /\ last.op = "set_update_callback"
    /\ Pre.update_callback = "cbA"
    /\ Post.update_callback = "cbB"
    /\ registered[last.sid] = "cbB"

\* C8: contact, on_update with a status key sets triggered to (status = "open");
\* without a status key triggered keeps its prior value (so it stays true through
\* any number of updates that carry no status).
C8_ContactTriggered ==
    (last.op = "on_update" /\ Pre.cls = "AqaraContactSensor")
        => /\ last.exc = "none"
           /\ Post.triggered = IF HasKey("status") THEN last.data["status"] = S_open
                               ELSE Pre.triggered

C8_Witness ==
    /\ last.op = "on_update"
    /\ Pre.cls = "AqaraContactSensor"
    /\ Pre.triggered
    /\ ~HasKey("status")
    /\ Post.triggered

\* C9: motion, on_update with a status key sets triggered to (status = "motion");
\* without a status key it sets triggered to false.
C9_MotionTriggered ==
    (last.op = "on_update" /\ Pre.cls = "AqaraMotionSensor")
        => /\ last.exc = "none"
           /\ Post.triggered = (HasKey("status") /\ last.data["status"] = S_motion)

C9_Witness ==
    /\ last.op = "on_update"
    /\ Pre.cls = "AqaraMotionSensor"
    /\ Pre.triggered
    /\ ~HasKey("status")
    /\ ~Post.triggered

\* tenths is n / 100 rounded to one decimal place
IsRoundedDiv100(tenths, n) == 10 * tenths - n \in -5..5

\* the field stored for key is the payload's value decoded
Decoded(key, stored) ==
    (HasKey(key) /\ PyInt(last.data[key]).exc = "none")
        => /\ IsRoundedDiv100(stored, PyInt(last.data[key]).val)
           /\ (last.data[key] = V_2350 => stored = 235)
           /\ (last.data[key] = V_4567 => stored = 457)

\* C10: HT, for each of temperature and humidity present in an on_update payload
\* the stored field becomes the raw value taken as an integer, divided by 100 and
\* rounded to one decimal place ("2350" gives 23.5, "4567" gives 45.7).
C10_HTDecoded ==
    (last.op = "on_update" /\ Pre.cls = "AqaraHTSensor")
        => /\ Decoded("temperature", Post.temp)
           /\ Decoded("humidity", Post.humid)

\* C11: HT, from any prior state and for any payload, on_heartbeat(payload) leaves
\* the temperature and humidity that on_update(payload) would leave (and ends the
\* same way: both return, or both raise the same exception).
C11_HTHeartbeatAsUpdate ==
    (last.op = "on_heartbeat" /\ Pre.cls = "AqaraHTSensor")
        => LET u == on_update_result(Pre, last.data)
           IN  /\ Post.temp = u.dev.temp
               /\ Post.humid = u.dev.humid
               /\ last.exc = u.exc

C11_Witness ==
    /\ last.op = "on_heartbeat"
    /\ Pre.cls = "AqaraHTSensor"
    /\ HasKey("temperature")
    /\ HasKey("humidity")
    /\ Pre.temp = 0
    /\ Post.temp = 235
    /\ Post.humid = 457

\* the keys the variant's hook reads in the last event
ReadKeys ==
    IF Pre.cls = "AqaraHTSensor" THEN {"temperature", "humidity"}
    ELSE IF last.op = "on_update" THEN {"status"} ELSE {"voltage"}

\* the payload's value for key is one the variant cannot decode
Malformed(key) ==
    /\ HasKey(key)
    /\ IF key = "status"
       THEN Pre.cls = "AqaraSwitchSensor" /\ ~InMap(last.data[key])
       ELSE PyInt(last.data[key]).exc # "none"

\* the state field that key is stored in
Field(dev, key) ==
    CASE key = "temperature" -> dev.temp
      [] key = "humidity" -> dev.humid
      [] key = "voltage" -> dev.voltage
      [] key = "status" -> IF dev.cls = "AqaraSwitchSensor" THEN dev.last_action
                           ELSE dev.triggered

\* the payload's well-formed value for key has been stored
Applied(key) ==
    CASE key \in {"temperature", "humidity"} -> Decoded(key, Field(Post, key))
      [] key = "voltage" -> Post.voltage = PyInt(last.data[key]).val
      [] key = "status" ->
            CASE Pre.cls = "AqaraSwitchSensor" -> Post.last_action = ExpectedAction(last.data[key])
              [] Pre.cls = "AqaraContactSensor" -> Post.triggered = (last.data[key] = S_open)
              [] OTHER -> Post.triggered = (last.data[key] = S_motion)

\* C12: when an event's payload holds a malformed or unknown value for one field,
\* processing continues: that field keeps its prior value, the well-formed fields
\* of the same payload are applied, and the registered callback is invoked.
C12_MalformedFieldSkipped ==
    (IsEvent /\ \E key \in ReadKeys : Malformed(key))
        => /\ last.exc = "none"
           /\ \A key \in ReadKeys :
                HasKey(key) =>
                    IF Malformed(key) THEN Field(Post, key) = Field(Pre, key)
                    ELSE Applied(key)
           /\ Pre.update_callback # None => Len(last.calls) = 1

\* C13: update_now on a device produced by the factory issues exactly one
\* read-device request to the gateway, carrying that device's sid, changes no
\* variant state and does not invoke the update callback.  Stated of what the
\* factory hands back for every recognized model: it is a device, and update_now
\* on it sends the gateway the one request for its sid and nothing else (update_now
\* writes no field and calls no callback).
C13_RefreshReadsOnce ==
    (last.op = "create_device" /\ last.model \in ValidModels)
        => /\ last.exc = "none"
           /\ last.ret # None
           /\ update_now_result(last.ret).exc = "none"
           /\ update_now_result(last.ret).reads
                = <<[gateway |-> GATEWAY, sid |-> last.sid]>>

\* C14: whenever the registered callback is invoked for an on_update or
\* on_heartbeat event, the instance it is handed already reflects the event's
\* payload: it is the instance as the event leaves it, with every field the
\* variant reads from the payload stored (and a motion sensor's triggered reset
\* by an update without status).
C14_MutationBeforeNotification ==
    IsEvent =>
        \A i \in 1..Len(last.calls) :
            /\ last.calls[i].dev = Post
            /\ \A key \in ReadKeys :
                 (HasKey(key) /\ ~Malformed(key)) => Applied(key)
            /\ (Pre.cls = "AqaraMotionSensor" /\ last.op = "on_update"
                  /\ ~HasKey("status")) => ~last.calls[i].dev.triggered

C14_Witness ==
    /\ last.op = "on_update"
    /\ Len(last.calls) = 1
    /\ Pre.cls = "AqaraContactSensor"
    /\ ~Pre.triggered
    /\ last.calls[1].dev.triggered
    /\ last.calls[1].cb = "cbB"

NonHT == {"AqaraContactSensor", "AqaraMotionSensor", "AqaraSwitchSensor"}

\* C15: contact, motion and switch: on_heartbeat changes at most voltage, never
\* triggered or last_action, even when its payload holds a status key; and
\* on_update never changes voltage, even when its payload holds a voltage key.
C15_HeartbeatOnlyVoltage ==
    (IsEvent /\ Pre.cls \in NonHT)
        => IF last.op = "on_heartbeat"
           THEN /\ [Post EXCEPT !.voltage = Pre.voltage] = Pre
                /\ Pre.cls = "AqaraSwitchSensor" => Post.last_action = Pre.last_action
                /\ Pre.cls # "AqaraSwitchSensor" => Post.triggered = Pre.triggered
           ELSE Post.voltage = Pre.voltage

C15_Witness ==
    /\ last.op = "on_heartbeat"
    /\ Pre.cls = "AqaraSwitchSensor"
    /\ HasKey("status")
    /\ last.data["status"] = S_double_click
    /\ HasKey("voltage")
    /\ Pre.last_action = AQARA_SWITCH_ACTION_CLICK
    /\ Post.last_action = AQARA_SWITCH_ACTION_CLICK
    /\ Pre.voltage = 0
    /\ Post.voltage = 3005

\* the payload keys whose values a variant keeps in its state fields
StoredKeys(cls) ==
    IF cls = "AqaraHTSensor" THEN {"temperature", "humidity"}
    ELSE {"status", "voltage"}

\* C16 as stated: a state field is overwritten only when its key is present in
\* the event's payload: an event lacking a key leaves that key's field unchanged,
\* for every field of every variant (temperature, humidity, voltage, and the
\* fields fed by status).
C16_AbsentKeyKeepsField ==
    IsEvent =>
        \A key \in StoredKeys(Pre.cls) :
            ~HasKey(key) => Field(Post, key) = Field(Pre, key)

\* C16 amended: a state field is overwritten only when its key is present in
\* the event's payload, except a motion sensor's triggered, which an update
\* lacking status resets: an HT event lacking temperature leaves temperature
\* unchanged, lacking humidity leaves humidity unchanged, and an event lacking
\* voltage leaves voltage unchanged on contact, motion and switch devices; an
\* event lacking status leaves a contact sensor's triggered and a switch's
\* last_action unchanged.
C16_AbsentKeyKeepsFieldButMotion ==
    IsEvent =>
        \A key \in StoredKeys(Pre.cls) :
            (/\ ~HasKey(key)
             /\ ~(Pre.cls = "AqaraMotionSensor" /\ key = "status"
                    /\ last.op = "on_update"))
                => Field(Post, key) = Field(Pre, key)

C16_Witness ==
    /\ last.op = "on_update"
    /\ Pre.cls = "AqaraHTSensor"
    /\ ~HasKey("temperature")
    /\ HasKey("humidity")
    /\ Pre.temp = 235
    /\ Post.temp = 235
    /\ Pre.humid = 0
    /\ Post.humid = 457

\* one step of on_update, on_heartbeat or set_update_callback on one instance
\* leaves every other instance and its registered callback as they were, and
\* the only callback it invokes is the acting instance's own, on that instance
C17_Step ==
    last'.op \in {"on_update", "on_heartbeat", "set_update_callback"}
        => /\ \A s \in DOMAIN devices \ {last'.sid} :
                /\ s \in DOMAIN devices'
                /\ devices'[s] = devices[s]
                /\ registered'[s] = registered[s]
           /\ \A i \in 1..Len(last'.calls) :
                /\ last'.calls[i].dev.sid = last'.sid
                /\ last'.calls[i].cb = registered[last'.sid]

\* C17: device instances share no mutable state: any on_update, on_heartbeat or
\* set_update_callback applied to one device leaves the variant state and the
\* registered callback of every other device unchanged and never invokes another
\* device's callback.
C17_NoSharedState == [][C17_Step]_vars

C17_Witness ==
    /\ last.op = "on_update"
    /\ last.sid = "s1"
    /\ Pre.cls = "AqaraSwitchSensor"
    /\ devices["s1"].update_callback = "cbA"
    /\ devices["s2"].update_callback = "cbB"
    /\ devices["s2"].last_action = AQARA_SWITCH_ACTION_DOUBLE_CLICK
    /\ devices["s2"].voltage = 3005
    /\ Post.last_action = AQARA_SWITCH_ACTION_CLICK
    /\ Len(last.calls) = 1
    /\ last.calls[1].cb = "cbA"

\* the event a step performs is accepted (nothing is raised) and is followed by
\* the notification of the callback registered for the instance
C18_Step ==
    last'.op \in {"on_update", "on_heartbeat"}
        => /\ last'.exc = "none"
           /\ registered[last'.sid] # None
                => /\ Len(last'.calls) = 1
                   /\ last'.calls[1].cb = registered[last'.sid]
                   /\ last'.calls[1].dev = devices'[last'.sid]

\* C18: a device has no terminal state: in every reachable state, including the
\* state after an event that carried unknown or malformed content, a subsequent
\* on_update or on_heartbeat is accepted and applied and is followed by the
\* callback notification.
C18_NoTerminalState == [][C18_Step]_vars

\* C19: after any sequence of update and heartbeat events a motion sensor's
\* triggered is true exactly when at least one update has been applied and the
\* most recent update carried status "motion".  In inductive form: triggered is
\* false before any operation; an update sets it to whether its payload carries
\* status "motion"; every other operation (a heartbeat, a registration, a
\* refresh request, a call of the factory) leaves it as it was.
C19_MotionFollowsLatestUpdate ==
    /\ last.op = "none"
         => \A s \in DOMAIN devices :
              devices[s].cls = "AqaraMotionSensor" => ~devices[s].triggered
    /\ (last.op = "on_update" /\ Pre.cls = "AqaraMotionSensor")
         => Post.triggered = (HasKey("status") /\ last.data["status"] = S_motion)
    /\ (last.op \in {"on_heartbeat", "set_update_callback", "update_now"}
          /\ Pre.cls = "AqaraMotionSensor")
         => Post.triggered = Pre.triggered
    /\ last.op = "create_device"
         => \A s \in DOMAIN last.pre :
              last.pre[s].cls = "AqaraMotionSensor"
                 => devices[s] = last.pre[s] \/ devices[s] = last.ret

C19_Witness ==
    /\ last.op = "on_heartbeat"
    /\ Pre.cls = "AqaraMotionSensor"
    /\ Pre.triggered
    /\ Post.triggered
    /\ HasKey("voltage")
    /\ ~HasKey("status")
    /\ Pre.voltage = 0
    /\ Post.voltage = 3005

ActionCodes ==
    {AQARA_SWITCH_ACTION_CLICK, AQARA_SWITCH_ACTION_DOUBLE_CLICK,
     AQARA_SWITCH_ACTION_LONG_CLICK_PRESS, AQARA_SWITCH_ACTION_LONG_CLICK_RELEASE}

RecognizedStatuses ==
    {S_click, S_double_click, S_long_click_press, S_long_click_release}

\* C20: in every reachable state a switch's last_action is None or one of the
\* four action codes; it is None only while no recognized status has been
\* applied (None before any operation, an action code right after an update
\* with a recognized status), and once it is an action code no operation makes
\* it None again.
C20_LastActionNeverCleared ==
    /\ \A s \in DOMAIN devices :
         devices[s].cls = "AqaraSwitchSensor"
            => devices[s].last_action \in ActionCodes \cup {None}
    /\ last.op = "none"
         => \A s \in DOMAIN devices :
              devices[s].cls = "AqaraSwitchSensor" => devices[s].last_action = None
    /\ (last.op = "on_update" /\ Pre.cls = "AqaraSwitchSensor" /\ HasKey("status")
          /\ last.data["status"] \in RecognizedStatuses)
         => Post.last_action \in ActionCodes
    /\ (last.op \in {"on_update", "on_heartbeat", "set_update_callback", "update_now"}
          /\ Pre.cls = "AqaraSwitchSensor")
         => /\ Pre.last_action \in ActionCodes => Post.last_action \in ActionCodes
            /\ (Pre.last_action = None /\ Post.last_action # None)
                 => /\ last.op = "on_update"
                    /\ HasKey("status")
                    /\ last.data["status"] \in RecognizedStatuses
    /\ last.op = "create_device"
         => \A s \in DOMAIN last.pre :
              last.pre[s].cls = "AqaraSwitchSensor"
                 => devices[s] = last.pre[s] \/ devices[s] = last.ret

C20_Witness ==
    /\ last.op = "on_update"
    /\ Pre.cls = "AqaraSwitchSensor"
    /\ HasKey("status")
    /\ last.data["status"] = S_open
    /\ Pre.last_action = AQARA_SWITCH_ACTION_LONG_CLICK_PRESS
    /\ Post.last_action = AQARA_SWITCH_ACTION_LONG_CLICK_PRESS

====
